---- MODULE Spec2Model ----
(***************************************************************************)
(* A model of spf/config.py: discovery of advertised plugins, the option   *)
(* string parser, and the registration pass over the [plugins] section.    *)
(*                                                                         *)
(* Python strings are sequences of one-character strings, so that split,   *)
(* casefold, int() and float() are computed character by character.        *)
(* Python scalars are records [t, s, n, d]: t the type, s the text of a    *)
(* str, n the integer (or the mantissa of a float, or 0/1 of a bool) and   *)
(* d the number of decimal places of a float.                              *)
(***************************************************************************)
EXTENDS Integers, Sequences, FiniteSets, TLC

\* ------------------------------------------------------------------ bounds
\* Longest raw option string enumerated exhaustively over OptAlphabet.
MaxRawLen == 3
\* Most parts joined with "," from PartPool into a raw option string.
MaxParts == 2
\* Most entry points published under the 'sanic_plugins' group.
MaxEntryPoints == 2
\* Most entries of the [plugins] section.
MaxConfig == 2
\* Most entry points when discovery is run on its own (SpecDiscover).
MaxDiscovered == 3

\* ------------------------------------------------------------- Python values
PyNone == [t |-> "None", s |-> <<>>, n |-> 0, d |-> 0]
PyStr(s) == [t |-> "str", s |-> s, n |-> 0, d |-> 0]
PyInt(n) == [t |-> "int", s |-> <<>>, n |-> n, d |-> 0]
PyBool(b) == [t |-> "bool", s |-> <<>>, n |-> IF b THEN 1 ELSE 0, d |-> 0]

RECURSIVE NormFloat(_, _)
\* A float as mantissa / 10^places, trailing decimal zeros dropped, so that
\* 2.50 and 2.5 are the same value.
NormFloat(m, places) ==
    IF places > 0 /\ m % 10 = 0 THEN NormFloat(m \div 10, places - 1)
    ELSE [t |-> "float", s |-> <<>>, n |-> m, d |-> places]

PyFloat(m, places) == NormFloat(m, places)

\* Python truth value of a scalar: `if x:`.
Truthy(v) ==
    CASE v.t = "None" -> FALSE
      [] v.t = "str" -> v.s # <<>>
      [] OTHER -> v.n # 0

\* str(x) for a str or for None.
Str(v) == IF v.t = "None" THEN <<"N", "o", "n", "e">> ELSE v.s

\* ------------------------------------------------------------ string helpers
Contains(s, c) == \E i \in 1..Len(s) : s[i] = c

\* Index of the first occurrence of c in s, 0 when there is none.
IndexOf(s, c) ==
    IF Contains(s, c)
    THEN CHOOSE i \in 1..Len(s) : s[i] = c /\ \A j \in 1..(i - 1) : s[j] # c
    ELSE 0

RECURSIVE Split(_, _)
\* s.split(c): always at least one part; "" splits into [""].
Split(s, c) ==
    IF ~Contains(s, c) THEN <<s>>
    ELSE LET i == IndexOf(s, c)
         IN <<SubSeq(s, 1, i - 1)>> \o Split(SubSeq(s, i + 1, Len(s)), c)

\* part.split('=', 1) of a part that contains '=': <<key, value text>>.
SplitFirst(part) ==
    LET i == IndexOf(part, "=")
    IN <<SubSeq(part, 1, i - 1), SubSeq(part, i + 1, Len(part))>>

RECURSIVE Join(_, _)
Join(parts, c) ==
    IF parts = <<>> THEN <<>>
    ELSE IF Len(parts) = 1 THEN parts[1]
    ELSE parts[1] \o <<c>> \o Join(Tail(parts), c)

UpperToLower ==
    [c \in {"A", "B", "N", "Z"} |->
        CASE c = "A" -> "a" [] c = "B" -> "b" [] c = "N" -> "n" [] c = "Z" -> "z"]

CasefoldChar(c) == IF c \in DOMAIN UpperToLower THEN UpperToLower[c] ELSE c

RECURSIVE Casefold(_)
\* str.casefold() on the ASCII letters the model uses.
Casefold(s) ==
    IF s = <<>> THEN <<>> ELSE <<CasefoldChar(Head(s))>> \o Casefold(Tail(s))

\* ---------------------------------------------------------- int() and float()
Digits == {"0", "1", "2", "3", "4", "5", "6", "7", "8", "9"}

DigitVal(c) ==
    CASE c = "0" -> 0 [] c = "1" -> 1 [] c = "2" -> 2 [] c = "3" -> 3 [] c = "4" -> 4
      [] c = "5" -> 5 [] c = "6" -> 6 [] c = "7" -> 7 [] c = "8" -> 8 [] c = "9" -> 9

RECURSIVE DigitsVal(_)
DigitsVal(s) ==
    IF s = <<>> THEN 0
    ELSE DigitsVal(SubSeq(s, 1, Len(s) - 1)) * 10 + DigitVal(s[Len(s)])

RECURSIVE LStrip(_)
LStrip(s) == IF s # <<>> /\ s[1] = " " THEN LStrip(Tail(s)) ELSE s

RECURSIVE RStrip(_)
RStrip(s) ==
    IF s # <<>> /\ s[Len(s)] = " " THEN RStrip(SubSeq(s, 1, Len(s) - 1)) ELSE s

Strip(s) == RStrip(LStrip(s))

HasSign(s) == s # <<>> /\ s[1] \in {"-", "+"}
Unsigned(s) == IF HasSign(s) THEN Tail(s) ELSE s
SignOf(s) == IF s # <<>> /\ s[1] = "-" THEN -1 ELSE 1

\* int(text): surrounding blanks, an optional sign, then one or more digits.
\* [ok |-> FALSE] stands for ValueError.
ParseInt(text) ==
    LET t == Strip(text)
        body == Unsigned(t)
        ok == body # <<>> /\ \A i \in 1..Len(body) : body[i] \in Digits
    IN [ok |-> ok, n |-> IF ok THEN SignOf(t) * DigitsVal(body) ELSE 0]

\* float(text) on decimal literals without exponent: surrounding blanks, an
\* optional sign, digits with at most one '.', at least one digit.
ParseFloat(text) ==
    LET t == Strip(text)
        body == Unsigned(t)
        dots == {i \in 1..Len(body) : body[i] = "."}
        ok == /\ \A i \in 1..Len(body) : body[i] \in Digits \cup {"."}
              /\ Cardinality(dots) <= 1
              /\ \E i \in 1..Len(body) : body[i] \in Digits
        dot == IndexOf(body, ".")
        ip == IF dot = 0 THEN body ELSE SubSeq(body, 1, dot - 1)
        fp == IF dot = 0 THEN <<>> ELSE SubSeq(body, dot + 1, Len(body))
    IN [ok |-> ok,
        v |-> IF ok THEN PyFloat(SignOf(t) * DigitsVal(ip \o fp), Len(fp)) ELSE PyNone]

\* ------------------------------------------------- _transform_option_dict
s_True == <<"T", "r", "u", "e">>
s_False == <<"F", "a", "l", "s", "e">>
s_None == <<"N", "o", "n", "e">>

\* CoerceValue without the None literal.
CoerceValue_NoNone(val) ==
    IF val = s_True THEN PyBool(TRUE)
    ELSE IF val = s_False THEN PyBool(FALSE)
    ELSE IF Contains(val, ".")
         THEN (IF ParseFloat(val).ok THEN ParseFloat(val).v ELSE PyStr(val))
         ELSE (IF ParseInt(val).ok THEN PyInt(ParseInt(val).n) ELSE PyStr(val))

\* The elif chain that turns one value text into a scalar.
CoerceValue(val) ==
    IF val = s_True THEN PyBool(TRUE)
    ELSE IF val = s_False THEN PyBool(FALSE)
    ELSE IF val = s_None THEN PyNone
    ELSE IF Contains(val, ".")
         THEN (IF ParseFloat(val).ok THEN ParseFloat(val).v ELSE PyStr(val))
         ELSE (IF ParseInt(val).ok THEN PyInt(ParseInt(val).n) ELSE PyStr(val))

\* kwkey of a part: the text before the first '=', None without '='.
PartKey(part) == IF Contains(part, "=") THEN PyStr(SplitFirst(part)[1]) ELSE PyNone

\* val of a part before coercion.
PartVal(part) == IF Contains(part, "=") THEN SplitFirst(part)[2] ELSE part

\* `if kwkey:` decides between kwargs[kwkey] = val and args.append(val).
IsKeyword(kwkey) == Truthy(kwkey)

SetItem(dict, key, val) ==
    [k \in DOMAIN dict \cup {key} |-> IF k = key THEN val ELSE dict[k]]

EmptyDict == [k \in {} |-> PyNone]

RECURSIVE TransformParts(_, _, _)
\* The for loop over the parts, with the accumulated args and kwargs.
TransformParts(parts, args, kwargs) ==
    IF parts = <<>> THEN [args |-> args, kwargs |-> kwargs]
    ELSE LET part == Head(parts)
             kwkey == PartKey(part)
             val == CoerceValue(PartVal(part))
         IN IF IsKeyword(kwkey)
            THEN TransformParts(Tail(parts), args, SetItem(kwargs, kwkey.s, val))
            ELSE TransformParts(Tail(parts), Append(args, val), kwargs)

TransformOptionDict(options) ==
    TransformParts(Split(Str(options), ","), <<>>, EmptyDict)

\* EntryOptions without the `if options:` guard.
EntryOptions_AlwaysParse(options) == TransformOptionDict(options)

\* Lines 113-117 of _register_plugins: the parser is skipped for a falsy
\* option value.
EntryOptions(options) ==
    IF Truthy(options) THEN TransformOptionDict(options)
    ELSE [args |-> <<>>, kwargs |-> EmptyDict]

\* --------------------------------------------------------------- environment
\* A Python object: a module or any other object, with its truth value.
Module(id) == [kind |-> "module", id |-> id, truthy |-> TRUE]
Object(id, truthy) == [kind |-> "object", id |-> id, truthy |-> truthy]
NoneObject == [kind |-> "None", id |-> <<>>, truthy |-> FALSE]

EmptyAttrs == [a \in {} |-> NoneObject]

\* What importlib.import_module can import, and the attributes getattr finds:
\* module m has a plugin instance i and an attribute e whose value is falsy;
\* module n has no attributes. Every other name raises ImportError.
SysModules ==
    [mn \in {<<"m">>, <<"n">>} |->
        IF mn = <<"m">>
        THEN [a \in {<<"i">>, <<"e">>} |->
                 IF a = <<"i">> THEN Object(<<"m", ".", "i">>, TRUE)
                 ELSE Object(<<"m", ".", "e">>, FALSE)]
        ELSE EmptyAttrs]

Importable(module_name) == module_name \in DOMAIN SysModules
ImportModule(module_name) == Module(module_name)
HasAttr(module_name, attr) == attr \in DOMAIN SysModules[module_name]
GetAttr(module_name, attr) == SysModules[module_name][attr]

\* The entry points pkg_resources.iter_entry_points('sanic_plugins') can yield.
EntryPointPool ==
    { [name |-> <<"A", "b">>, module_name |-> <<"m">>, attrs |-> << <<"i">>, <<"q">> >>],
      [name |-> <<"a", "b">>, module_name |-> <<"n">>, attrs |-> <<>>],
      [name |-> <<"a", "b">>, module_name |-> <<"m">>, attrs |-> << <<"e">> >>],
      [name |-> <<"b">>, module_name |-> <<"x">>, attrs |-> << <<"i">> >>],
      [name |-> <<"b">>, module_name |-> <<"m">>, attrs |-> << <<"q">> >>],
      [name |-> <<"b">>, module_name |-> <<"n">>, attrs |-> <<>>] }

\* The (plugin, options) items the [plugins] section can hold; a key without
\* a value has options None.
ConfigPool ==
    { [plugin |-> <<"a", "b">>, options |-> PyNone],
      [plugin |-> <<"A", "B">>, options |-> PyStr(<<"k", "=", "1">>)],
      [plugin |-> <<"n">>, options |-> PyStr(<<"a">>)],
      [plugin |-> <<"b">>, options |-> PyStr(<<>>)],
      [plugin |-> <<"Z">>, options |-> PyNone] }

\* The canonical names a registration record can report.
HostNames == {<<"P">>, <<"Q">>}

SeqsUpTo(S, n) == UNION {[1..k -> S] : k \in 0..n}

\* ------------------------------------------------------------------- state
VARIABLES
    entry_points,        \* what iter_entry_points yields, in order
    config_plugins,      \* the argument of _register_plugins
    pc,                  \* "discover", "register", "done", "raised"; "idle" in SpecOpt
    ep_i,                \* position of the for loop of _find_advertised_plugins
    plugins,             \* the dict _find_advertised_plugins builds
    errors,              \* the messages given to spf.error
    infos,               \* the messages given to spf.info
    cfg_i,               \* position of the for loop of _register_plugins
    registered_plugins,  \* the dict _register_plugins builds
    calls,               \* the calls of spf.register_plugin so far
    adhoc_imports,       \* the import_module calls of _try_register_other_plugin
    exc,                 \* the exception that left _register_plugins, if any
    opt_in,              \* SpecOpt: the option value handed to the parser
    opt_via,             \* SpecOpt: "none", "parser" (direct call), "caller"
    opt_res              \* SpecOpt: the (args, kwargs) obtained

vars == <<entry_points, config_plugins, pc, ep_i, plugins, errors, infos, cfg_i,
          registered_plugins, calls, adhoc_imports, exc, opt_in, opt_via, opt_res>>

passVars == <<entry_points, config_plugins, pc, ep_i, plugins, errors, infos, cfg_i,
              registered_plugins, calls, adhoc_imports, exc>>

optVars == <<opt_in, opt_via, opt_res>>

NoExc == [type |-> "none", msg |-> <<>>]
NoResult == [args |-> <<>>, kwargs |-> EmptyDict]

\* "...{}".format(a) and "...{}...{}".format(a, b)
Format1(pre, a) == <<pre>> \o a
Format2(pre, a, mid, b) == <<pre>> \o a \o <<mid>> \o b

\* ------------------------------------------------- _find_advertised_plugins
Discovering == pc = "discover" /\ ep_i <= Len(entry_points)

NoDescriptor ==
    [name |-> <<>>, module |-> NoneObject, has_instance |-> FALSE,
     instance |-> NoneObject, ep |-> 0]

EmptyPlugins == [k \in {} |-> NoDescriptor]

\* attr = entrypoint.attrs[0] if entrypoint.attrs else None
FirstAttr(entrypoint) ==
    IF entrypoint.attrs # <<>> THEN PyStr(entrypoint.attrs[1]) ELSE PyNone

\* p_dict; ep stands for the identity of the dict object.
Descriptor(entrypoint, i) ==
    LET attr == FirstAttr(entrypoint)
    IN [name |-> entrypoint.name,
        module |-> ImportModule(entrypoint.module_name),
        has_instance |-> Truthy(attr),
        instance |-> IF Truthy(attr) THEN GetAttr(entrypoint.module_name, attr.s)
                     ELSE NoneObject,
        ep |-> i]

\* InsertDescriptor that keeps the case-folded key it already has.
InsertDescriptor_KeepFirst(dict, p_dict) ==
    LET named == SetItem(dict, p_dict.name, p_dict)
    IN IF Casefold(p_dict.name) \in DOMAIN dict THEN named
       ELSE SetItem(named, Casefold(p_dict.name), p_dict)

\* plugins[name] = p_dict; plugins[str(name).casefold()] = p_dict
InsertDescriptor(dict, p_dict) ==
    SetItem(SetItem(dict, p_dict.name, p_dict), Casefold(p_dict.name), p_dict)

\* DiscoverImportError that leaves the loop instead of continuing.
DiscoverImportError_Break ==
    /\ pc = "discover"
    /\ ep_i <= Len(entry_points)
    /\ LET entrypoint == entry_points[ep_i]
       IN /\ ~Importable(entrypoint.module_name)
          /\ errors' = Append(errors, Format1("Cannot import ", entrypoint.module_name))
    /\ ep_i' = Len(entry_points) + 1
    /\ UNCHANGED <<entry_points, config_plugins, pc, plugins, infos, cfg_i,
                   registered_plugins, calls, adhoc_imports, exc>>
    /\ UNCHANGED optVars

\* except ImportError: spf.error(...); continue
DiscoverImportError ==
    /\ Discovering
    /\ LET entrypoint == entry_points[ep_i]
       IN /\ ~Importable(entrypoint.module_name)
          /\ errors' = Append(errors, Format1("Cannot import ", entrypoint.module_name))
    /\ ep_i' = ep_i + 1
    /\ UNCHANGED <<entry_points, config_plugins, pc, plugins, infos, cfg_i,
                   registered_plugins, calls, adhoc_imports, exc>>
    /\ UNCHANGED optVars

\* except AttributeError: spf.error(...); continue
DiscoverAttributeError ==
    /\ Discovering
    /\ LET entrypoint == entry_points[ep_i]
           attr == FirstAttr(entrypoint)
       IN /\ Importable(entrypoint.module_name)
          /\ Truthy(attr)
          /\ ~HasAttr(entrypoint.module_name, attr.s)
          /\ errors' = Append(errors, Format2("Cannot import ", attr.s, " from ",
                                              entrypoint.module_name))
    /\ ep_i' = ep_i + 1
    /\ UNCHANGED <<entry_points, config_plugins, pc, plugins, infos, cfg_i,
                   registered_plugins, calls, adhoc_imports, exc>>
    /\ UNCHANGED optVars

\* The entry imports and resolves: it is stored under both keys.
DiscoverOk ==
    /\ Discovering
    /\ LET entrypoint == entry_points[ep_i]
           attr == FirstAttr(entrypoint)
       IN /\ Importable(entrypoint.module_name)
          /\ Truthy(attr) => HasAttr(entrypoint.module_name, attr.s)
          /\ plugins' = InsertDescriptor(plugins, Descriptor(entrypoint, ep_i))
    /\ ep_i' = ep_i + 1
    /\ UNCHANGED <<entry_points, config_plugins, pc, errors, infos, cfg_i,
                   registered_plugins, calls, adhoc_imports, exc>>
    /\ UNCHANGED optVars

\* return plugins: advertised_plugins is bound and the second loop starts.
DiscoverReturn ==
    /\ pc = "discover"
    /\ ep_i > Len(entry_points)
    /\ pc' = "register"
    /\ UNCHANGED <<entry_points, config_plugins, ep_i, plugins, errors, infos, cfg_i,
                   registered_plugins, calls, adhoc_imports, exc>>
    /\ UNCHANGED optVars

\* --------------------------------------------------------- spf.register_plugin
\* The host's callback: it raises, or returns (object, registration record)
\* where the record reports a canonical plugin_name.
HostOutcomes ==
    {[raised |-> TRUE, plugin_name |-> <<>>]}
        \cup {[raised |-> FALSE, plugin_name |-> n] : n \in HostNames}

NoAssoc == [p |-> NoneObject, reg |-> [plugin_name |-> <<>>]]
EmptyRegistered == [k \in {} |-> NoAssoc]

\* ------------------------------------------------------- _register_plugins
\* ConfigEntry that walks the section backwards.
ConfigEntry_Reversed(i) == config_plugins[Len(config_plugins) - i + 1]

\* for plugin, options in config_plugins
ConfigEntry(i) == config_plugins[i]

\* LookupKey without the case folding.
LookupKey_NoFold(plugin) == plugin

\* p_fold = str(plugin).casefold()
LookupKey(plugin) == Casefold(plugin)

\* _register_advertised_plugin: inst = plugin_def.get('instance', None);
\* p = inst if inst else plugin_def['module']
SelectObject(plugin_def) ==
    LET inst == IF plugin_def.has_instance THEN plugin_def.instance ELSE NoneObject
    IN IF inst.truthy THEN inst ELSE plugin_def.module

\* UnknownPluginError that formats the case-folded reference.
UnknownPluginError_Folded(plugin_name) ==
    [type |-> "RuntimeError",
     msg |-> Format1("Do not know how to register plugin: ", Casefold(plugin_name))]

\* _try_register_other_plugin: the RuntimeError raised on ImportError.
UnknownPluginError(plugin_name) ==
    [type |-> "RuntimeError",
     msg |-> Format1("Do not know how to register plugin: ", plugin_name)]

\* ResultKey that files the result under the configured reference.
ResultKey_ByReference(plugin, assoc) == plugin

\* registered_plugins[reg.plugin_name] = assoc
ResultKey(plugin, assoc) == assoc.reg.plugin_name

LoadingInfo(plugin) == <<"Loading plugin: ">> \o plugin \o <<"...">>
FoundInfo(name) == <<"Found advertised plugin ">> \o name \o <<".">>

Registering == pc = "register" /\ cfg_i <= Len(config_plugins)

\* spf.register_plugin(p, *args, **kwargs) and what follows it in the loop
\* body: the result is stored, or the callback's exception propagates.
CallRegisterPlugin(plugin, branch, p, opts, def_ep) ==
    \E out \in HostOutcomes :
        /\ calls' = Append(calls, [plugin |-> plugin, entry |-> cfg_i, branch |-> branch,
                                   p |-> p, args |-> opts.args, kwargs |-> opts.kwargs,
                                   def_ep |-> def_ep, raised |-> out.raised,
                                   plugin_name |-> out.plugin_name])
        /\ IF out.raised
           THEN /\ pc' = "raised"
                /\ exc' = [type |-> "RegistrationError", msg |-> <<>>]
                /\ UNCHANGED <<cfg_i, registered_plugins>>
           ELSE /\ LET assoc == [p |-> p, reg |-> [plugin_name |-> out.plugin_name]]
                   IN registered_plugins' =
                          SetItem(registered_plugins, ResultKey(plugin, assoc), assoc)
                /\ cfg_i' = cfg_i + 1
                /\ UNCHANGED <<pc, exc>>

\* if p_fold in advertised_plugins: _register_advertised_plugin(...)
RegisterAdvertised ==
    /\ Registering
    /\ LET entry == ConfigEntry(cfg_i)
           p_fold == LookupKey(entry.plugin)
       IN /\ p_fold \in DOMAIN plugins
          /\ infos' = infos \o <<LoadingInfo(entry.plugin), FoundInfo(plugins[p_fold].name)>>
          /\ CallRegisterPlugin(entry.plugin, "advertised", SelectObject(plugins[p_fold]),
                                EntryOptions(entry.options), plugins[p_fold].ep)
    /\ UNCHANGED <<entry_points, config_plugins, ep_i, plugins, errors, adhoc_imports>>
    /\ UNCHANGED optVars

\* else: _try_register_other_plugin(...), the import succeeds
RegisterOther ==
    /\ Registering
    /\ LET entry == ConfigEntry(cfg_i)
           p_fold == LookupKey(entry.plugin)
       IN /\ p_fold \notin DOMAIN plugins
          /\ Importable(entry.plugin)
          /\ infos' = Append(infos, LoadingInfo(entry.plugin))
          /\ adhoc_imports' = Append(adhoc_imports, [entry |-> cfg_i, name |-> entry.plugin])
          /\ CallRegisterPlugin(entry.plugin, "other", ImportModule(entry.plugin),
                                EntryOptions(entry.options), 0)
    /\ UNCHANGED <<entry_points, config_plugins, ep_i, plugins, errors>>
    /\ UNCHANGED optVars

\* else: _try_register_other_plugin(...), ImportError becomes RuntimeError
RegisterOtherImportError ==
    /\ Registering
    /\ LET entry == ConfigEntry(cfg_i)
           p_fold == LookupKey(entry.plugin)
       IN /\ p_fold \notin DOMAIN plugins
          /\ ~Importable(entry.plugin)
          /\ infos' = Append(infos, LoadingInfo(entry.plugin))
          /\ adhoc_imports' = Append(adhoc_imports, [entry |-> cfg_i, name |-> entry.plugin])
          /\ exc' = UnknownPluginError(entry.plugin)
    /\ pc' = "raised"
    /\ UNCHANGED <<entry_points, config_plugins, ep_i, plugins, errors, cfg_i,
                   registered_plugins, calls>>
    /\ UNCHANGED optVars

\* return registered_plugins
RegisterReturn ==
    /\ pc = "register"
    /\ cfg_i > Len(config_plugins)
    /\ pc' = "done"
    /\ UNCHANGED <<entry_points, config_plugins, ep_i, plugins, errors, infos, cfg_i,
                   registered_plugins, calls, adhoc_imports, exc>>
    /\ UNCHANGED optVars

Init ==
    /\ entry_points \in SeqsUpTo(EntryPointPool, MaxEntryPoints)
    /\ config_plugins \in SeqsUpTo(ConfigPool, MaxConfig)
    /\ pc = "discover"
    /\ ep_i = 1
    /\ plugins = EmptyPlugins
    /\ errors = <<>>
    /\ infos = <<>>
    /\ cfg_i = 1
    /\ registered_plugins = EmptyRegistered
    /\ calls = <<>>
    /\ adhoc_imports = <<>>
    /\ exc = NoExc
    /\ opt_in = PyNone
    /\ opt_via = "off"
    /\ opt_res = NoResult

Next ==
    \/ DiscoverImportError
    \/ DiscoverAttributeError
    \/ DiscoverOk
    \/ DiscoverReturn
    \/ RegisterAdvertised
    \/ RegisterOther
    \/ RegisterOtherImportError
    \/ RegisterReturn

Spec == Init /\ [][Next]_vars

\* ---------------------------------------------------- discovery on its own
\* _find_advertised_plugins(spf) over longer sequences of entry points, with
\* an empty [plugins] section.
InitDiscover ==
    /\ entry_points \in SeqsUpTo(EntryPointPool, MaxDiscovered)
    /\ config_plugins = <<>>
    /\ pc = "discover"
    /\ ep_i = 1
    /\ plugins = EmptyPlugins
    /\ errors = <<>>
    /\ infos = <<>>
    /\ cfg_i = 1
    /\ registered_plugins = EmptyRegistered
    /\ calls = <<>>
    /\ adhoc_imports = <<>>
    /\ exc = NoExc
    /\ opt_in = PyNone
    /\ opt_via = "off"
    /\ opt_res = NoResult

NextDiscover ==
    \/ DiscoverImportError
    \/ DiscoverAttributeError
    \/ DiscoverOk
    \/ DiscoverReturn

SpecDiscover == InitDiscover /\ [][NextDiscover]_vars

\* ------------------------------------------ the option parser on its own
OptAlphabet == {"a", "1", ".", "=", ",", "-"}

\* Parts of option strings, among them those of "a,b=1,c=True,d=2.5,e=None".
PartPool ==
    { <<"a">>,
      <<"b", "=", "1">>,
      <<"c", "=", "T", "r", "u", "e">>,
      <<"d", "=", "2", ".", "5">>,
      <<"e", "=", "N", "o", "n", "e">>,
      <<"F", "a", "l", "s", "e">>,
      <<"t", "r", "u", "e">>,
      <<"=", "5">>,
      <<"k", "=">>,
      <<"k", "=", "a", "=", "b">>,
      <<"k", "=", "2", ".", "5", "0">>,
      <<"1", ".", "2", ".", "3">>,
      <<" ", "7">>,
      <<"+", "4">>,
      <<>> }

ExampleRaw ==
    Join(<< <<"a">>, <<"b", "=", "1">>, <<"c", "=", "T", "r", "u", "e">>,
            <<"d", "=", "2", ".", "5">>, <<"e", "=", "N", "o", "n", "e">> >>, ",")

RawStrings ==
    SeqsUpTo(OptAlphabet, MaxRawLen)
        \cup {Join(ps, ",") : ps \in SeqsUpTo(PartPool, MaxParts)}
        \cup {ExampleRaw}

OptionInputs == {PyNone} \cup {PyStr(s) : s \in RawStrings}

InitOpt ==
    /\ opt_in \in OptionInputs
    /\ opt_via = "none"
    /\ opt_res = NoResult
    /\ entry_points = <<>>
    /\ config_plugins = <<>>
    /\ pc = "idle"
    /\ ep_i = 1
    /\ plugins = EmptyPlugins
    /\ errors = <<>>
    /\ infos = <<>>
    /\ cfg_i = 1
    /\ registered_plugins = EmptyRegistered
    /\ calls = <<>>
    /\ adhoc_imports = <<>>
    /\ exc = NoExc

\* _transform_option_dict(options), called directly
CallTransform ==
    /\ opt_via = "none"
    /\ opt_via' = "parser"
    /\ opt_res' = TransformOptionDict(opt_in)
    /\ UNCHANGED opt_in
    /\ UNCHANGED passVars

\* the option handling of _register_plugins for one entry (lines 113-117)
CallEntryOptions ==
    /\ opt_via = "none"
    /\ opt_via' = "caller"
    /\ opt_res' = EntryOptions(opt_in)
    /\ UNCHANGED opt_in
    /\ UNCHANGED passVars

NextOpt == CallTransform \/ CallEntryOptions

SpecOpt == InitOpt /\ [][NextOpt]_vars

\* ======================================================== option parser claims
OptParts == Split(Str(opt_in), ",")

\* The parts the loop has put into args: those it did not file under a key.
OptPositional == {i \in 1..Len(OptParts) : ~IsKeyword(PartKey(OptParts[i]))}

\* The place in args of positional part i.
OptArgIndex(i) == Cardinality({j \in OptPositional : j <= i})

\* The coercion rule as the claim words it: the literals first, then float
\* for a text with '.', else int, the text itself when the parse fails.
C9_Expected(text) ==
    CASE text = <<"T", "r", "u", "e">> -> PyBool(TRUE)
      [] text = <<"F", "a", "l", "s", "e">> -> PyBool(FALSE)
      [] text = <<"N", "o", "n", "e">> -> PyNone
      [] OTHER ->
           IF \E i \in 1..Len(text) : text[i] = "."
           THEN (IF ParseFloat(text).ok THEN ParseFloat(text).v ELSE PyStr(text))
           ELSE (IF ParseInt(text).ok THEN PyInt(ParseInt(text).n) ELSE PyStr(text))

\* C7: every part that contains '=' is split on its first '=' and fills the
\* named mapping under its key; the parts without '=' make up the positional
\* sequence, in order; no part with '=' ends up in the positional sequence.
C7_KeyedPartsAreNamed ==
    opt_via = "parser" =>
        LET keyed == {i \in 1..Len(OptParts) : Contains(OptParts[i], "=")}
            unkeyed == {i \in 1..Len(OptParts) : ~Contains(OptParts[i], "=")}
        IN /\ \A i \in keyed : SplitFirst(OptParts[i])[1] \in DOMAIN opt_res.kwargs
           /\ DOMAIN opt_res.kwargs = {SplitFirst(OptParts[i])[1] : i \in keyed}
           /\ Len(opt_res.args) = Cardinality(unkeyed)
           /\ \A i \in unkeyed :
                 opt_res.args[Cardinality({j \in unkeyed : j <= i})]
                     = C9_Expected(OptParts[i])

\* C8 as stated: the parser turns the empty option string into an empty
\* positional sequence and an empty named mapping.
C8_EmptyStringParsesToNothing ==
    (opt_via = "parser" /\ opt_in = PyStr(<<>>)) =>
        (opt_res.args = <<>> /\ DOMAIN opt_res.kwargs = {})

\* C8 as amended: the parser turns the empty option string into one positional
\* empty string and no named value; it is _register_plugins that, skipping
\* the parser for an empty or absent option value, uses empty args and kwargs.
C8_EmptyOptions ==
    /\ (opt_via = "parser" /\ opt_in = PyStr(<<>>)) =>
           (opt_res.args = <<PyStr(<<>>)>> /\ DOMAIN opt_res.kwargs = {})
    /\ (opt_via = "caller" /\ opt_in \in {PyNone, PyStr(<<>>)}) =>
           (opt_res.args = <<>> /\ DOMAIN opt_res.kwargs = {})

C8_Witness ==
    /\ opt_via = "parser"
    /\ opt_in = PyStr(<<>>)
    /\ Len(opt_res.args) = 1

\* C9: every value text is coerced by the first matching rule (True, False,
\* None, float when it holds '.', else int, else the text unchanged), and
\* "a,b=1,c=True,d=2.5,e=None" gives ["a"] and {b: 1, c: true, d: 2.5, e: null}.
C9_CoercionOrder ==
    opt_via = "parser" =>
        /\ \A i \in 1..Len(OptParts) :
              LET part == OptParts[i]
                  key == PartKey(part).s
                  later == {j \in (i + 1)..Len(OptParts) :
                               IsKeyword(PartKey(OptParts[j])) /\ PartKey(OptParts[j]).s = key}
              IN IF i \in OptPositional
                 THEN opt_res.args[OptArgIndex(i)] = C9_Expected(PartVal(part))
                 ELSE later = {} => opt_res.kwargs[key] = C9_Expected(PartVal(part))
        /\ opt_in = PyStr(ExampleRaw) =>
              /\ opt_res.args = <<PyStr(<<"a">>)>>
              /\ DOMAIN opt_res.kwargs = {<<"b">>, <<"c">>, <<"d">>, <<"e">>}
              /\ opt_res.kwargs[<<"b">>] = PyInt(1)
              /\ opt_res.kwargs[<<"c">>] = PyBool(TRUE)
              /\ opt_res.kwargs[<<"d">>] = [t |-> "float", s |-> <<>>, n |-> 25, d |-> 1]
              /\ opt_res.kwargs[<<"e">>] = PyNone

C9_Witness ==
    /\ opt_via = "parser"
    /\ opt_in = PyStr(ExampleRaw)
    /\ opt_res.kwargs[<<"d">>].t = "float"

\* ===================================================== registration pass claims
\* Whether an entry point imports and resolves, read off the environment.
Resolves(entrypoint) ==
    /\ entrypoint.module_name \in DOMAIN SysModules
    /\ entrypoint.attrs # <<>> =>
           entrypoint.attrs[1] \in DOMAIN SysModules[entrypoint.module_name]

\* The entry points the discovery loop has been through.
Seen == 1..(ep_i - 1)
SeenOk == {i \in Seen : Resolves(entry_points[i])}
SeenFailed == {i \in Seen : ~Resolves(entry_points[i])}

\* The keys under which entry point i is stored.
KeysOf(i) == {k \in DOMAIN plugins : plugins[k].ep = i}

\* Some key holds what entry point i resolved to: its name, module and instance.
Present(i) ==
    \E k \in DOMAIN plugins :
        /\ plugins[k].name = entry_points[i].name
        /\ plugins[k].module.id = entry_points[i].module_name
        /\ plugins[k].has_instance = (entry_points[i].attrs # <<>>)
        /\ plugins[k].has_instance =>
               plugins[k].instance =
                   SysModules[entry_points[i].module_name][entry_points[i].attrs[1]]

\* A later resolving entry point has the same case-folded name.
Shadowed(i) ==
    \E j \in SeenOk :
        j > i /\ Casefold(entry_points[j].name) = Casefold(entry_points[i].name)

DiscoveryDone == pc \in {"register", "done", "raised"}

\* The entry of the [plugins] section that made the pass raise RuntimeError.
FailedEntry == IF exc.type = "RuntimeError" THEN {cfg_i} ELSE {}

\* A reference matches an advertised plugin exactly or up to case.
MatchesAdvertised(r) ==
    \E k \in DOMAIN plugins : Casefold(plugins[k].name) = Casefold(r)

\* The state the pass is in once it has raised RuntimeError at entry cfg_i.
C1_State ==
    (pc = "raised" /\ exc.type = "RuntimeError") =>
        /\ cfg_i \in 1..Len(config_plugins)
        /\ ~MatchesAdvertised(config_plugins[cfg_i].plugin)
        /\ config_plugins[cfg_i].plugin \notin DOMAIN SysModules
        /\ exc.msg = <<"Do not know how to register plugin: ">>
                         \o config_plugins[cfg_i].plugin
        /\ Len(calls) = cfg_i - 1
        /\ \A i \in 1..Len(calls) : calls[i].entry = i /\ ~calls[i].raised
        /\ DOMAIN registered_plugins = {calls[i].plugin_name : i \in 1..Len(calls)}

\* The step the pass takes when it reaches such an entry.
C1_Step ==
    (/\ pc = "register"
     /\ cfg_i <= Len(config_plugins)
     /\ ~MatchesAdvertised(config_plugins[cfg_i].plugin)
     /\ config_plugins[cfg_i].plugin \notin DOMAIN SysModules)
        => /\ pc' = "raised"
           /\ exc'.type = "RuntimeError"
           /\ calls' = calls
           /\ registered_plugins' = registered_plugins

\* C1: when entry N matches no advertised plugin and cannot be imported, the
\* pass aborts with an error naming exactly that reference, the callback is
\* invoked for no entry from N on, and what entries 1..N-1 registered stays.
C1_AbortKeepsEarlier == [](C1_State) /\ [][C1_Step]_vars

C1_Witness ==
    /\ pc = "raised"
    /\ exc.type = "RuntimeError"
    /\ cfg_i = 2
    /\ Len(calls) = 1
    /\ config_plugins[2].plugin = <<"Z">>

\* What discovery does with a failing entry point: skipped, reported, no abort.
C2_FailuresSkipped ==
    /\ \A i \in SeenFailed : KeysOf(i) = {}
    /\ Len(errors) = Cardinality(SeenFailed)
    /\ \A i \in SeenFailed :
          LET e == entry_points[i]
              at == Cardinality({j \in SeenFailed : j <= i})
          IN errors[at] =
                 IF e.module_name \notin DOMAIN SysModules
                 THEN <<"Cannot import ">> \o e.module_name
                 ELSE <<"Cannot import ">> \o e.attrs[1] \o <<" from ">> \o e.module_name
    /\ DiscoveryDone => ep_i = Len(entry_points) + 1

\* C2 as stated: a failing entry point is skipped and reported, discovery does
\* not abort, and every other entry point that resolves is in the mapping,
\* before or after the failing one.
C2_EveryResolvedEntryPresent ==
    /\ C2_FailuresSkipped
    /\ (DiscoveryDone /\ SeenFailed # {}) => \A i \in SeenOk : Present(i)

\* C2 as amended: ... and every other entry point that resolves is in the
\* mapping, under its name and its case-folded name, unless a later resolving
\* entry point has the same case-folded name.
C2_ResolvedEntryPresentUnlessShadowed ==
    /\ C2_FailuresSkipped
    /\ \A i \in SeenOk :
          ~Shadowed(i) =>
              KeysOf(i) = {entry_points[i].name, Casefold(entry_points[i].name)}

C2_Witness ==
    /\ DiscoveryDone
    /\ Len(entry_points) = 3
    /\ SeenFailed = {2}
    /\ KeysOf(1) # {}
    /\ KeysOf(3) # {}
    /\ Len(errors) = 1

\* The names the successful callbacks of the pass reported.
ReportedNames == {calls[i].plugin_name : i \in {j \in 1..Len(calls) : ~calls[j].raised}}

\* The last successful callback that reported name k.
LastReporting(k) ==
    CHOOSE i \in 1..Len(calls) :
        /\ ~calls[i].raised
        /\ calls[i].plugin_name = k
        /\ \A j \in (i + 1)..Len(calls) : calls[j].plugin_name # k

C3_KeyedByName ==
    /\ DOMAIN registered_plugins = ReportedNames
    /\ \A k \in DOMAIN registered_plugins :
          /\ registered_plugins[k].reg.plugin_name = k
          /\ registered_plugins[k].p = calls[LastReporting(k)].p

\* C3 as stated: after a pass without error the result has one entry per
\* successful callback, each under the plugin_name of the pair it holds.
C3_OneEntryPerCallback ==
    pc = "done" =>
        /\ C3_KeyedByName
        /\ Cardinality(DOMAIN registered_plugins) = Len(calls)

\* C3 as amended: after a pass without error the result has one entry per
\* distinct plugin_name the callbacks reported, each under the plugin_name of
\* the pair it holds, which is the pair of the last callback reporting it.
C3_OneEntryPerReportedName ==
    pc = "done" =>
        /\ C3_KeyedByName
        /\ Cardinality(DOMAIN registered_plugins) = Cardinality(ReportedNames)
        /\ Cardinality(DOMAIN registered_plugins) <= Len(calls)

C3_Witness ==
    /\ pc = "done"
    /\ Len(calls) = 2
    /\ calls[1].plugin = <<"A", "B">>
    /\ calls[1].branch = "advertised"
    /\ Cardinality(DOMAIN registered_plugins) = 2

\* The place of call i's entry among the ad hoc imports, if it has one.
AdhocOf(n) == {j \in 1..Len(adhoc_imports) : adhoc_imports[j].entry = n}

\* C4: a reference that equals an advertised name, exactly or up to case
\* folding, takes the advertised branch (the descriptor's object is
\* registered, nothing is imported ad hoc); any other reference takes the ad
\* hoc branch (it is imported as a dotted path and that module is registered);
\* each entry takes exactly one of the two.
C4_BranchByCasefold ==
    /\ \A i \in 1..Len(calls) :
          LET c == calls[i]
          IN IF MatchesAdvertised(c.plugin)
             THEN /\ c.branch = "advertised"
                  /\ \E k \in DOMAIN plugins :
                        /\ Casefold(plugins[k].name) = Casefold(c.plugin)
                        /\ c.p \in {plugins[k].module, plugins[k].instance}
                  /\ AdhocOf(c.entry) = {}
             ELSE /\ c.branch = "other"
                  /\ c.p = [kind |-> "module", id |-> c.plugin, truthy |-> TRUE]
                  /\ \E j \in AdhocOf(c.entry) : adhoc_imports[j].name = c.plugin
    /\ \A n \in FailedEntry :
          /\ ~MatchesAdvertised(config_plugins[n].plugin)
          /\ \E j \in AdhocOf(n) : adhoc_imports[j].name = config_plugins[n].plugin
    /\ \A n \in 1..Len(config_plugins) : Cardinality(AdhocOf(n)) <= 1
    /\ Len(adhoc_imports) =
           Cardinality({i \in 1..Len(calls) : calls[i].branch = "other"})
               + Cardinality(FailedEntry)

C4_Witness ==
    /\ pc = "done"
    /\ Len(calls) = 2
    /\ calls[1].plugin = <<"A", "B">>
    /\ calls[1].branch = "advertised"
    /\ <<"A", "B">> \notin DOMAIN plugins
    /\ calls[2].plugin = <<"n">>
    /\ calls[2].branch = "other"

\* The descriptor a call of the advertised branch was given.
DescriptorOf(c) == plugins[CHOOSE k \in DOMAIN plugins : plugins[k].ep = c.def_ep]

\* C5: on a hit the callback gets the descriptor's instance whenever the
\* descriptor has one (the entry point declared an attribute that resolved),
\* and the bare module only when it has none.
C5_InstancePreferred ==
    \A i \in 1..Len(calls) :
        calls[i].branch = "advertised" =>
            LET d == DescriptorOf(calls[i])
            IN IF d.has_instance THEN calls[i].p = d.instance
               ELSE calls[i].p = d.module

\* C6: a pass without error invokes the callback once per entry, in the order
\* of the entries, and discovery is over before the first invocation.
C6_OncePerEntryInOrder ==
    /\ pc = "done" =>
          /\ Len(calls) = Len(config_plugins)
          /\ \A i \in 1..Len(calls) :
                /\ calls[i].entry = i
                /\ calls[i].plugin = config_plugins[i].plugin
                /\ ~calls[i].raised
    /\ calls # <<>> => (DiscoveryDone /\ ep_i = Len(entry_points) + 1)

C6_Witness ==
    /\ pc = "done"
    /\ Len(calls) = 2
    /\ calls[1].plugin # calls[2].plugin
    /\ Len(entry_points) = 2

\* The last resolving entry point whose name case-folds to k.
LastFolding(k) ==
    CHOOSE j \in SeenOk :
        /\ Casefold(entry_points[j].name) = k
        /\ \A l \in SeenOk : Casefold(entry_points[l].name) = k => l <= j

\* C10: of advertised plugins whose names differ only by case, the case-folded
\* key holds the descriptor of the one discovered last, and a reference that
\* case-folds to that key registers that one, never an earlier one.
C10_LastDiscoveredWins ==
    /\ \A i \in SeenOk :
          LET k == Casefold(entry_points[i].name)
          IN k \in DOMAIN plugins /\ plugins[k].ep = LastFolding(k)
    /\ \A i \in 1..Len(calls) :
          calls[i].branch = "advertised" =>
              LET last == LastFolding(Casefold(calls[i].plugin))
              IN /\ calls[i].def_ep = last
                 /\ calls[i].p \in
                        {[kind |-> "module", id |-> entry_points[last].module_name,
                          truthy |-> TRUE]}
                            \cup {SysModules[entry_points[last].module_name][a] :
                                     a \in DOMAIN SysModules[entry_points[last].module_name]}

C10_Witness ==
    /\ DiscoveryDone
    /\ Len(entry_points) = 2
    /\ entry_points[1].name = <<"a", "b">>
    /\ entry_points[2].name = <<"A", "b">>
    /\ SeenOk = {1, 2}
    /\ Len(calls) >= 1
    /\ calls[1].plugin = <<"A", "B">>
    /\ calls[1].def_ep = 2

====
